---- MODULE Spec2Model ----
(***************************************************************************)
(* SearchIndexClient of azure-search-documents: the continuation-token     *)
(* codec, the row adapter, the OData helper, the client facade and the     *)
(* paged iteration that search() sets up.                                  *)
(*                                                                         *)
(* Python values are records tagged with their type: a str is              *)
(* [type |-> "str", val |-> <<characters>>], None where a str may stand is *)
(* PyNone.  A dict is a function from its keys; an object whose attributes *)
(* may be None is a function from the attributes that are not None.  None  *)
(* where a dict or an object may stand is the record None.                 *)
(***************************************************************************)
EXTENDS Integers, Sequences, FiniteSets, TLC

\* ---- bounds of the model ----
MaxPages == 3    \* responses the service serves for one search, the first included
MaxRows == 1     \* rows of one page

None == [none |-> TRUE]
PyNone == [type |-> "NoneType"]
PyStr(s) == [type |-> "str", val |-> s]
PyInt(n) == [type |-> "int", num |-> n]
PyTuple2(a, b) == [type |-> "tuple", fst |-> a, snd |-> b]

Raise(kind) == [err |-> kind]
Return(v) == [err |-> "none", ret |-> v]

\* ---- the generated models' wire mapping (SearchRequest) ----
AttributeMap == [search_text |-> "search", skip |-> "skip", top |-> "top"]
RestKeys == {AttributeMap[a] : a \in DOMAIN AttributeMap}
AttrOf(k) == CHOOSE a \in DOMAIN AttributeMap : AttributeMap[a] = k

\* SearchRequest.serialize(): wire keys, attributes that are None left out
serialize(request) ==
    [k \in {AttributeMap[a] : a \in DOMAIN request} |-> request[AttrOf(k)]]

\* SearchRequest.deserialize(data): known wire keys back to attributes
deserialize(data) ==
    [a \in {AttrOf(k) : k \in (DOMAIN data \cap RestKeys)} |-> data[AttributeMap[a]]]

\* ---- json and base64, by the shape of the text they produce or accept ----
\* a JSON text is either the text of an object or text that does not parse;
\* a token string is either the base64 of some bytes or not base64 at all
json_dumps(obj) == [json |-> TRUE, obj |-> obj]
json_loads(text) ==
    IF text.json THEN Return(text.obj) ELSE Raise("JSONDecodeError")
b64encode(text) == [b64 |-> TRUE, text |-> text]
b64decode(token) ==
    IF token.b64 THEN Return(token.text) ELSE Raise("binascii.Error")

api_version == "2019-05-06-Preview"

\* a plausible slip: the guard tests the link instead of the paging parameters
pack_continuation_token_link(response) ==
    IF response.next_link # PyNone
    THEN b64encode(json_dumps(
             [apiVersion |-> api_version,
              nextLink |-> response.next_link,
              nextPageParameters |->
                  IF response.next_page_parameters # None
                  THEN serialize(response.next_page_parameters)
                  ELSE serialize(<<>>)]))
    ELSE None

pack_continuation_token(response) ==
    IF response.next_page_parameters # None
    THEN b64encode(json_dumps(
             [apiVersion |-> api_version,
              nextLink |-> response.next_link,
              nextPageParameters |-> serialize(response.next_page_parameters)]))
    ELSE None

\* returns next_link alone; next_page_request is computed and dropped
unpack_continuation_token(token) ==
    LET decoded == b64decode(token) IN
    IF decoded.err # "none" THEN decoded
    ELSE LET loaded == json_loads(decoded.ret) IN
         IF loaded.err # "none" THEN loaded
         ELSE LET unpacked_token == loaded.ret IN
              IF "nextLink" \notin DOMAIN unpacked_token THEN Raise("KeyError")
              ELSE IF "nextPageParameters" \notin DOMAIN unpacked_token
                   THEN Raise("KeyError")
              ELSE LET next_page_request ==
                           deserialize(unpacked_token["nextPageParameters"])
                   IN Return(unpacked_token["nextLink"])

\* ---- convert_search_result ----
ScoreKey == "@search.score"
HighlightsKey == "@search.highlights"

\* dict d after d[k] = v
SetItem(d, k, v) == [x \in DOMAIN d \cup {k} |-> IF x = k THEN v ELSE d[x]]

\* ret is the very dict result.additional_properties: the two assignments
\* are made on the row's own field bag.  The operator gives the returned
\* mapping and the row as it is after the call.
convert_search_result(result) ==
    LET ret == SetItem(SetItem(result.additional_properties,
                               ScoreKey, result.score),
                       HighlightsKey, result.highlights)
    IN [ret |-> ret,
        result |-> [result EXCEPT !.additional_properties = ret]]

\* ---- odata ----
\* a statement is a sequence of characters and replacement fields; the
\* replacement field of key k is the single element Fields[k]
Fields == [name |-> "{name}", age |-> "{age}"]
Quote == "'"
IsField(tok) == \E k \in DOMAIN Fields : Fields[k] = tok
KeyOf(tok) == CHOOSE k \in DOMAIN Fields : Fields[k] = tok

Digits == <<"0", "1", "2", "3", "4", "5", "6", "7", "8", "9">>
RECURSIVE IntStr(_)
IntStr(n) == IF n < 10 THEN <<Digits[n + 1]>>
             ELSE IntStr(n \div 10) \o <<Digits[(n % 10) + 1]>>

\* str(value), as str.format renders a str or an int
Render(value) == IF value.type = "str" THEN value.val ELSE IntStr(value.num)

\* value.replace("'", "''")
RECURSIVE ReplaceQuote(_)
ReplaceQuote(s) ==
    IF s = <<>> THEN <<>>
    ELSE (IF Head(s) = Quote THEN <<Quote, Quote>> ELSE <<Head(s)>>)
         \o ReplaceQuote(Tail(s))

\* "'{key}'" in statement
QuotedIn(key, statement) ==
    \E i \in 1..(Len(statement) - 2) :
        /\ statement[i] = Quote
        /\ statement[i + 1] = Fields[key]
        /\ statement[i + 2] = Quote

\* statement.format(**kw), for the keys kw has
RECURSIVE FormatFields(_, _)
FormatFields(statement, kw) ==
    IF statement = <<>> THEN <<>>
    ELSE (IF IsField(Head(statement))
          THEN Render(kw[KeyOf(Head(statement))])
          ELSE <<Head(statement)>>)
         \o FormatFields(Tail(statement), kw)

format(statement, kw) ==
    IF \E i \in DOMAIN statement :
           IsField(statement[i]) /\ KeyOf(statement[i]) \notin DOMAIN kw
    THEN Raise("KeyError")
    ELSE Return(FormatFields(statement, kw))

\* the escaped value is stored back into kw only on the branch that adds
\* the quotes; under an explicitly quoted field kw[key] keeps the raw value
odata(statement, kwargs) ==
    LET kw == [key \in DOMAIN kwargs |->
                 LET value == kwargs[key] IN
                 IF value.type = "str"
                 THEN IF ~QuotedIn(key, statement)
                      THEN PyStr(<<Quote>> \o ReplaceQuote(value.val) \o <<Quote>>)
                      ELSE value
                 ELSE value]
    IN format(statement, kw)

\* ---- HeadersMixin ----
_ODATA_ACCEPT == "application/json;odata.metadata=none"
ApiKey == "key"
_headers == [x \in {"api-key", "Accept"} |->
               IF x = "api-key" THEN ApiKey ELSE _ODATA_ACCEPT]

\* caller headers merged with the client-wide defaults; a key the caller
\* sets overrides the default
_merge_client_headers(headers) ==
    LET h == IF headers = None THEN <<>> ELSE headers IN
    [x \in DOMAIN h \cup DOMAIN _headers |->
        IF x \in DOMAIN h THEN h[x] ELSE _headers[x]]

\* ---- the values the operations are called with ----
RECURSIVE SeqsUpTo(_, _)
SeqsUpTo(S, n) ==
    IF n = 0 THEN {<<>>}
    ELSE LET shorter == SeqsUpTo(S, n - 1) IN
         shorter \cup {Append(q, x) : q \in {t \in shorter : Len(t) = n - 1}, x \in S}

Rows == {[additional_properties |-> [id |-> i], score |-> 35,
          highlights |-> "title:foo"] : i \in {"1", "2"}}
Pages == SeqsUpTo(Rows, MaxRows)

NextLinks == {PyStr(<<"u", "v">>), PyStr(<<"u", "r", "l">>)}
SearchRequests == {[search_text |-> <<"q">>, skip |-> 50], [skip |-> 50, top |-> 5]}

\* SearchDocumentsResult: results, next_link, next_page_parameters
\* the paging parameters the service sends with a page that has a successor
NextPageRequests == {[search_text |-> <<"q">>, skip |-> 50]}
MoreResponses == [results : Pages, next_link : NextLinks,
                  next_page_parameters : NextPageRequests]
LastResponses == [results : Pages, next_link : {PyNone, PyStr(<<"u", "v">>)},
                  next_page_parameters : {None}]
Responses == MoreResponses \cup LastResponses

\* the responses and rows the helpers are tried on
PackLinks == NextLinks \cup {PyStr(<<>>), PyNone}
PackRequests == SearchRequests \cup {[search_text |-> <<"q">>], [top |-> 5]}
MorePackResponses == [results : Pages, next_link : PackLinks,
                      next_page_parameters : PackRequests]
PackResponses == MorePackResponses \cup LastResponses
AdapterRows == {[additional_properties |-> p, score |-> sc, highlights |-> h] :
                   p \in {<<>>, [id |-> "1"], [id |-> "2", title |-> "t"]},
                   sc \in {0, 35}, h \in {"null", "title:foo"}}

\* what the service may answer once it has served n responses of a search
ServiceResponses(n) == IF n + 1 < MaxPages THEN Responses ELSE LastResponses

\* strings handed to unpack_continuation_token from outside
ForeignTokens ==
    {[b64 |-> FALSE],
     [b64 |-> TRUE, text |-> [json |-> FALSE]],
     b64encode(json_dumps([apiVersion |-> api_version,
                           nextLink |-> PyStr(<<"u", "v">>)])),
     b64encode(json_dumps([apiVersion |-> "2020-06-30",
                           nextLink |-> PyStr(<<"u", "r", "l">>),
                           nextPageParameters |-> [skip |-> 50]]))}

Queries == {PyStr(<<"q">>), PyInt(7),
            [type |-> "SearchQuery", request |-> [search_text |-> <<"q">>]],
            [type |-> "SuggestQuery", request |-> [search_text |-> <<"q">>]],
            [type |-> "AutocompleteQuery", request |-> [search_text |-> <<"q">>]]}

\* the queries search accepts
PagedQueries == {q \in Queries : q.type \in {"str", "SearchQuery"}}

CallerHeaders == {None, [rid |-> "1"],
                  [x \in {"api-key"} |-> "mine"]}

Statements == {<<"n", "=", "{name}">>,
               <<"n", "=", Quote, "{name}", Quote>>,
               <<"{name}", "&", "a", "=", "{age}">>,
               <<"{name}", "|", Quote, "{name}", Quote>>}
Kwargs == {[name |-> PyStr(<<"O", Quote, "N">>)],
           [name |-> PyStr(<<"a">>), age |-> PyInt(37)],
           [name |-> PyStr(<<Quote, Quote>>), age |-> PyInt(5)],
           [name |-> PyInt(12)],
           [age |-> PyInt(5)]}

Documents == {<<>>, <<[id |-> "1"]>>, <<[id |-> "1"], [id |-> "2"]>>}

\* ---- state ----
VARIABLES
    live,                \* an iterator has been returned by search or resumed
    initial,             \* the response the iterator was constructed with, or None
    currentPage,         \* None while uninitialized, else [rows |-> the page]
    continuationToken,   \* None, or the token of the page last extracted
    exhausted,
    resumed,             \* the iterator was constructed from a persisted token
    served,              \* the responses the service has given to this search
    yielded,             \* the rows items() has produced
    done,                \* items() has terminated
    transport,           \* the transport calls of the operation last called
    last                 \* the operation last called, its arguments and outcome

iter == <<live, initial, currentPage, continuationToken, exhausted, resumed,
          served, yielded, done>>
vars == <<live, initial, currentPage, continuationToken, exhausted, resumed,
          served, yielded, done, transport, last>>

Init ==
    /\ live = FALSE
    /\ initial = None
    /\ currentPage = None
    /\ continuationToken = None
    /\ exhausted = FALSE
    /\ resumed = FALSE
    /\ served = <<>>
    /\ yielded = <<>>
    /\ done = FALSE
    /\ transport = <<>>
    /\ last = [op |-> "__init__", err |-> "none"]

\* one call of the generated client, as the transport spy records it
Call(op, request, link, headers) ==
    [op |-> op, request |-> request, link |-> link, headers |-> headers]

\* ---- the pure helpers, called on their own ----
PackToken(response) ==
    /\ last' = [op |-> "pack_continuation_token", err |-> "none",
                response |-> response,
                ret |-> pack_continuation_token(response)]
    /\ transport' = <<>>
    /\ UNCHANGED iter

UnpackToken(token) ==
    /\ last' = [op |-> "unpack_continuation_token", token |-> token,
                out |-> unpack_continuation_token(token),
                err |-> unpack_continuation_token(token).err]
    /\ transport' = <<>>
    /\ UNCHANGED iter

ConvertSearchResult(result) ==
    /\ last' = [op |-> "convert_search_result", err |-> "none",
                result |-> result,
                after |-> convert_search_result(result).result,
                ret |-> convert_search_result(result).ret]
    /\ transport' = <<>>
    /\ UNCHANGED iter

OData(statement, kwargs) ==
    /\ last' = [op |-> "odata", statement |-> statement, kwargs |-> kwargs,
                out |-> odata(statement, kwargs),
                err |-> odata(statement, kwargs).err]
    /\ transport' = <<>>
    /\ UNCHANGED iter

\* ---- search and the paging it sets up ----
\* the duck-typed slip: anything that carries a request is let through
search_query_any(query) ==
    IF query.type = "str"
    THEN Return([type |-> "SearchQuery", request |-> [search_text |-> query.val]])
    ELSE IF "request" \notin DOMAIN query
         THEN Raise("TypeError")
         ELSE Return(query)

\* the argument check of search: a str is wrapped, a SearchQuery passes
search_query(query) ==
    IF query.type = "str"
    THEN Return([type |-> "SearchQuery", request |-> [search_text |-> query.val]])
    ELSE IF query.type # "SearchQuery"
         THEN Raise("TypeError")
         ELSE Return(query)

RECURSIVE ConvertAll(_)
ConvertAll(results) ==
    IF results = <<>> THEN <<>>
    ELSE <<convert_search_result(Head(results)).ret>> \o ConvertAll(Tail(results))

_extract_data_cb(response) ==
    [continuation_token |-> pack_continuation_token(response),
     results |-> ConvertAll(response.results)]

\* "_next_link, _ = value": a 2-tuple unpacks, and so does a str of exactly
\* two characters, into its characters
Destructure2(value) ==
    IF value.type = "tuple" THEN Return(value.fst)
    ELSE IF value.type = "str"
         THEN IF Len(value.val) = 2
              THEN Return(PyStr(<<value.val[1]>>))
              ELSE Raise("ValueError")
         ELSE Raise("TypeError")

_unpack_next_link(next_link) ==
    LET unpacked == unpack_continuation_token(next_link) IN
    IF unpacked.err # "none" THEN unpacked ELSE Destructure2(unpacked.ret)

\* the slip of clearing the token before the fetch is known to have succeeded
OnFetchErrorCleared(state) ==
    [state EXCEPT !.continuationToken = None, !.exhausted = TRUE]

\* the iterator's fields after a page fetch whose transport call failed
OnFetchError(state) == state

Search(query, headers) ==
    LET checked == search_query(query)
        merged == _merge_client_headers(headers)   \* kwargs["headers"], not passed on
        call == [op |-> "search", query |-> query, headers |-> headers]
    IN IF checked.err # "none"
       THEN /\ last' = call @@ [err |-> checked.err]
            /\ transport' = <<>>
            /\ UNCHANGED iter
       ELSE /\ transport' = <<Call("search_post", checked.ret.request, PyNone, None)>>
            /\ \/ /\ last' = call @@ [err |-> "TransportError"]
                  /\ UNCHANGED iter
               \/ \E response \in ServiceResponses(0) :
                    /\ last' = call @@ [err |-> "none"]
                    /\ live' = TRUE
                    /\ initial' = response
                    /\ currentPage' = None
                    /\ continuationToken' = None
                    /\ exhausted' = FALSE
                    /\ resumed' = FALSE
                    /\ served' = <<response>>
                    /\ yielded' = <<>>
                    /\ done' = FALSE

\* a fresh iterator constructed from the token the caller kept
Resume ==
    /\ live
    /\ continuationToken # None
    /\ last' = [op |-> "resume", err |-> "none", token |-> continuationToken]
    /\ transport' = <<>>
    /\ initial' = None
    /\ currentPage' = None
    /\ exhausted' = FALSE
    /\ resumed' = TRUE
    /\ yielded' = <<>>
    /\ done' = FALSE
    /\ UNCHANGED <<live, continuationToken, served>>

AdvancePage ==
    LET call == [op |-> "advancePage",
                 token |-> continuationToken,
                 first |-> (currentPage = None),
                 afterLast |-> /\ currentPage # None
                               /\ served[Len(served)].next_page_parameters = None]
        Publish(response) ==
            LET extracted == _extract_data_cb(response) IN
            /\ currentPage' = [rows |-> extracted.results]
            /\ continuationToken' = extracted.continuation_token
            /\ exhausted' = (extracted.continuation_token = None)
            /\ yielded' = yielded \o extracted.results
            /\ last' = call @@ [err |-> "none", ret |-> extracted.results]
    IN
    /\ live
    /\ IF currentPage = None /\ initial # None
       THEN /\ Publish(initial)
            /\ transport' = <<>>
            /\ UNCHANGED <<live, initial, resumed, served, done>>
       ELSE IF exhausted
       THEN /\ last' = call @@ [err |-> "none", ret |-> <<>>]
            /\ transport' = <<>>
            /\ done' = TRUE
            /\ UNCHANGED <<live, initial, currentPage, continuationToken,
                           exhausted, resumed, served, yielded>>
       ELSE LET link == _unpack_next_link(continuationToken) IN
            IF link.err # "none"
            THEN /\ last' = call @@ [err |-> link.err, ret |-> <<>>]
                 /\ transport' = <<>>
                 /\ UNCHANGED iter
            ELSE /\ transport' = <<Call("search_post", None, link.ret, None)>>
                 /\ \/ LET after == OnFetchError(
                                       [currentPage |-> currentPage,
                                        continuationToken |-> continuationToken,
                                        exhausted |-> exhausted])
                       IN /\ last' = call @@ [err |-> "TransportError", ret |-> <<>>]
                          /\ currentPage' = after.currentPage
                          /\ continuationToken' = after.continuationToken
                          /\ exhausted' = after.exhausted
                          /\ UNCHANGED <<live, initial, resumed, served,
                                         yielded, done>>
                    \/ \E response \in ServiceResponses(Len(served)) :
                         /\ Publish(response)
                         /\ served' = Append(served, response)
                         /\ UNCHANGED <<live, initial, resumed, done>>

\* ---- the other operations of the client ----
\* an operation that merges the headers and makes one call of the generated client
Delegate(name, op, headers) ==
    /\ last' = [op |-> name, headers |-> headers, err |-> "none"]
    /\ transport' = <<Call(op, None, PyNone, _merge_client_headers(headers))>>
    /\ UNCHANGED iter

GetDocumentCount(headers) == Delegate("get_document_count", "count", headers)

GetDocument(headers) == Delegate("get_document", "get", headers)

Suggest(query, headers) ==
    IF query.type # "SuggestQuery"
    THEN /\ last' = [op |-> "suggest", query |-> query, headers |-> headers,
                     err |-> "TypeError"]
         /\ transport' = <<>>
         /\ UNCHANGED iter
    ELSE /\ last' = [op |-> "suggest", query |-> query, headers |-> headers,
                     err |-> "none"]
         /\ transport' = <<Call("suggest_post", query.request, PyNone,
                                _merge_client_headers(headers))>>
         /\ UNCHANGED iter

Autocomplete(query, headers) ==
    IF query.type # "AutocompleteQuery"
    THEN /\ last' = [op |-> "autocomplete", query |-> query, headers |-> headers,
                     err |-> "TypeError"]
         /\ transport' = <<>>
         /\ UNCHANGED iter
    ELSE /\ last' = [op |-> "autocomplete", query |-> query, headers |-> headers,
                     err |-> "none"]
         /\ transport' = <<Call("autocomplete_post", query.request, PyNone,
                                _merge_client_headers(headers))>>
         /\ UNCHANGED iter

\* IndexDocumentsBatch.add_<kind>_documents on a new batch
RECURSIVE Actions(_, _)
Actions(kind, documents) ==
    IF documents = <<>> THEN <<>>
    ELSE <<[action_type |-> kind, document |-> Head(documents)]>>
         \o Actions(kind, Tail(documents))

\* the call index_documents makes when given kwargs["headers"] = headers
index_documents(batch, headers) ==
    [op |-> "index", request |-> [actions |-> batch], link |-> PyNone,
     headers |-> _merge_client_headers(headers)]

IndexDocuments(batch, headers) ==
    /\ last' = [op |-> "index_documents", headers |-> headers, err |-> "none"]
    /\ transport' = <<index_documents(batch, headers)>>
    /\ UNCHANGED iter

\* a helper merges the headers itself and hands the merged ones to index_documents
Helper(name, kind, documents, headers) ==
    /\ last' = [op |-> name, headers |-> headers, err |-> "none"]
    /\ transport' = <<index_documents(Actions(kind, documents),
                                      _merge_client_headers(headers))>>
    /\ UNCHANGED iter

UploadDocuments(documents, headers) ==
    Helper("upload_documents", "upload", documents, headers)

DeleteDocuments(documents, headers) ==
    Helper("delete_documents", "delete", documents, headers)

MergeDocuments(documents, headers) ==
    Helper("merge_documents", "merge", documents, headers)

MergeOrUploadDocuments(documents, headers) ==
    Helper("merge_or_upload_documents", "mergeOrUpload", documents, headers)

\* search and the iteration over its pages
Next ==
    \/ \E query \in PagedQueries, headers \in {None} : Search(query, headers)
    \/ Resume
    \/ AdvancePage

Spec == Init /\ [][Next]_vars

\* every operation of the client, each a single call
NextClient ==
    \/ \E query \in Queries, headers \in CallerHeaders : Search(query, headers)
    \/ \E headers \in CallerHeaders : GetDocumentCount(headers)
    \/ \E headers \in CallerHeaders : GetDocument(headers)
    \/ \E query \in Queries, headers \in CallerHeaders : Suggest(query, headers)
    \/ \E query \in Queries, headers \in CallerHeaders : Autocomplete(query, headers)
    \/ \E documents \in Documents, headers \in CallerHeaders :
           UploadDocuments(documents, headers)
    \/ \E documents \in Documents, headers \in CallerHeaders :
           DeleteDocuments(documents, headers)
    \/ \E documents \in Documents, headers \in CallerHeaders :
           MergeDocuments(documents, headers)
    \/ \E documents \in Documents, headers \in CallerHeaders :
           MergeOrUploadDocuments(documents, headers)
    \/ \E documents \in Documents, headers \in CallerHeaders :
           IndexDocuments(Actions("upload", documents), headers)

SpecClient == Init /\ [][NextClient]_vars

\* the module-level functions, applied to inputs drawn from the sets above
NextHelpers ==
    \/ \E response \in PackResponses : PackToken(response)
    \/ \E token \in ForeignTokens
                    \cup {pack_continuation_token(r) : r \in MorePackResponses} :
           UnpackToken(token)
    \/ \E result \in AdapterRows : ConvertSearchResult(result)
    \/ \E statement \in Statements, kwargs \in Kwargs : OData(statement, kwargs)

SpecHelpers == Init /\ [][NextHelpers]_vars

(***************************************************************************)
(* The properties.                                                         *)
(***************************************************************************)

\* a row as the application is to see it: the field bag and the two reserved keys
Adapt(row) ==
    [k \in DOMAIN row.additional_properties \cup {ScoreKey, HighlightsKey} |->
        IF k = ScoreKey THEN row.score
        ELSE IF k = HighlightsKey THEN row.highlights
        ELSE row.additional_properties[k]]

RECURSIVE AdaptPage(_)
AdaptPage(rows) ==
    IF rows = <<>> THEN <<>> ELSE <<Adapt(Head(rows))>> \o AdaptPage(Tail(rows))

RECURSIVE AdaptPages(_)
AdaptPages(responses) ==
    IF responses = <<>> THEN <<>>
    ELSE AdaptPage(Head(responses).results) \o AdaptPages(Tail(responses))

\* what a well-formed token holds
TokenLink(token) == token.text.obj.nextLink
TokenParams(token) == deserialize(token.text.obj.nextPageParameters)

TokenKeys == {"apiVersion", "nextLink", "nextPageParameters"}
Malformed(token) ==
    \/ ~token.b64
    \/ ~token.text.json
    \/ DOMAIN token.text.obj # TokenKeys
    \/ token.text.obj.apiVersion # api_version

RECURSIVE Doubled(_)
Doubled(s) ==
    IF s = <<>> THEN <<>>
    ELSE IF Head(s) = Quote THEN <<Quote, Quote>> \o Doubled(Tail(s))
    ELSE <<Head(s)>> \o Doubled(Tail(s))

\* the statement with every field replaced as the escaping rule says, from
\* position i on
RECURSIVE Escaped(_, _, _)
Escaped(statement, kwargs, i) ==
    IF i > Len(statement) THEN <<>>
    ELSE (IF IsField(statement[i])
          THEN LET value == kwargs[KeyOf(statement[i])]
                   wrapped == /\ i > 1
                              /\ i < Len(statement)
                              /\ statement[i - 1] = Quote
                              /\ statement[i + 1] = Quote
               IN IF value.type = "str"
                  THEN IF wrapped THEN Doubled(value.val)
                       ELSE <<Quote>> \o Doubled(value.val) \o <<Quote>>
                  ELSE IntStr(value.num)
          ELSE <<statement[i]>>)
         \o Escaped(statement, kwargs, i + 1)

FieldsSupplied(statement, kwargs) ==
    \A i \in DOMAIN statement :
        IsField(statement[i]) => KeyOf(statement[i]) \in DOMAIN kwargs

\* C1: for a response with next-page parameters, unpacking the packed token
\* gives back both the next link and the paging parameters; and the packed
\* token is None exactly when the response has no next-page parameters.
C1_TokenRoundTrip ==
    last.op = "pack_continuation_token" =>
        /\ (last.ret = None) <=> (last.response.next_page_parameters = None)
        /\ last.response.next_page_parameters # None =>
               LET unpacked == unpack_continuation_token(last.ret) IN
               /\ unpacked.err = "none"
               /\ unpacked.ret.type = "tuple"
               /\ unpacked.ret.fst = last.response.next_link
               /\ unpacked.ret.snd = last.response.next_page_parameters

\* C2: advancing an iterator constructed from a persisted token decodes the
\* token without error, issues a request carrying exactly the token's link
\* and paging parameters, and returns the rows of the page then served.
C2_ResumeFromToken ==
    (resumed /\ last.op = "advancePage" /\ last.first) =>
        /\ last.err \in {"none", "TransportError"}
        /\ Len(transport) = 1
        /\ transport[1].link = TokenLink(last.token)
        /\ transport[1].request = TokenParams(last.token)
        /\ last.err = "none" => last.ret = AdaptPage(served[Len(served)].results)

\* C3: iterating the items of a search never stops on an error of the paging
\* itself, and when it terminates it has produced, in order, the adapted rows
\* of every page up to the first response without a continuation token.
C3_ItemsTermination ==
    ~resumed =>
        /\ last.op = "advancePage" => last.err \in {"none", "TransportError"}
        /\ done => /\ yielded = AdaptPages(served)
                   /\ served[Len(served)].next_page_parameters = None

\* C4: once the last fetched response carried no continuation token, every
\* further advancePage returns an empty sequence, raises nothing and makes
\* no transport call.
C4_IdempotentAfterExhaustion ==
    (last.op = "advancePage" /\ last.afterLast) =>
        /\ last.err = "none"
        /\ last.ret = <<>>
        /\ transport = <<>>

C4_Witness ==
    /\ last.op = "advancePage"
    /\ last.afterLast
    /\ done
    /\ Len(served) >= 2
    /\ yielded # <<>>

C6_TypeGuards ==
    /\ (last.op = "search" /\ last.query.type \notin {"str", "SearchQuery"}) =>
           (last.err = "TypeError" /\ transport = <<>>)
    /\ (last.op = "suggest" /\ last.query.type # "SuggestQuery") =>
           (last.err = "TypeError" /\ transport = <<>>)
    /\ (last.op = "autocomplete" /\ last.query.type # "AutocompleteQuery") =>
           (last.err = "TypeError" /\ transport = <<>>)
    /\ (last.op = "search" /\ last.query.type = "str") =>
           /\ Len(transport) = 1
           /\ transport[1].op = "search_post"
           /\ transport[1].request = [search_text |-> last.query.val]

C6_Witness ==
    /\ last.op = "search"
    /\ last.query.type = "int"
    /\ last.err = "TypeError"
    /\ transport = <<>>

\* C7: unpacking a malformed token (not base64, not the three-key JSON
\* object, or another protocol version) fails with the malformed-token error.
C7_MalformedTokenError ==
    (last.op = "unpack_continuation_token" /\ Malformed(last.token)) =>
        last.err = "MalformedTokenError"

\* C8: odata doubles every single quote of a textual value, wrapping the
\* value in quotes where the field is bare and leaving it unwrapped where
\* the statement quotes the field; other values are substituted verbatim.
C8_ODataEscaping ==
    (last.op = "odata" /\ FieldsSupplied(last.statement, last.kwargs)) =>
        /\ last.err = "none"
        /\ last.out.ret = Escaped(last.statement, last.kwargs, 1)

\* C9: convert_search_result returns the field bag plus the two reserved
\* keys and leaves the row it was given unchanged.
C9_RowAdaptation ==
    last.op = "convert_search_result" =>
        /\ last.ret = Adapt(last.result)
        /\ last.after = last.result

\* C10: every transport call of a public operation carries the caller's
\* headers merged with the client's default headers.
ClientOperations ==
    {"get_document_count", "get_document", "search", "suggest", "autocomplete",
     "upload_documents", "delete_documents", "merge_documents",
     "merge_or_upload_documents", "index_documents"}

C10_HeadersReachTransport ==
    last.op \in ClientOperations =>
        \A i \in DOMAIN transport :
            transport[i].headers = _merge_client_headers(last.headers)

====
